---- MODULE Spec2Model ----
(***************************************************************************)
(* PatientCare (src/patient_care_app.py): a single-user desktop record     *)
(* keeper over one SQLite file with two tables, Patients and Medicines.    *)
(*                                                                         *)
(* The model keeps the committed content of the store file (file), the     *)
(* content seen through the open connection (live: the file plus the       *)
(* statements of a transaction that is still open), the connection's       *)
(* foreign_keys pragma, the handler state of the form (editing_id, tree)   *)
(* and the archives written by backup_data.  Every button handler is one   *)
(* action; the SQL statements of a handler are run one after the other by  *)
(* Run, and any one of them can raise sqlite3.Error (a storage fault, the  *)
(* input "fault" of the action).                                           *)
(*                                                                         *)
(* Text is a sequence of one-character strings.  The rows of Medicines are *)
(* kept as a bag: MedicineID is assigned by AUTOINCREMENT and is never     *)
(* read by the program.                                                    *)
(***************************************************************************)
EXTENDS Bags, FiniteSets, Integers, Sequences, TLC

\* ---------------------------------------------------------------- bounds
MaxPatients == 2
MaxClock == 1
MaxBackups == 1
MaxQuantity == 21

\* ------------------------------------------------------------------ text
Digits == {"0", "1", "2", "3", "4", "5", "6", "7", "8", "9"}

Whitespace == {" ", "\n"}

UpperOf ==
  [a |-> "A", b |-> "B", d |-> "D", i |-> "I", n |-> "N", o |-> "O",
   q |-> "Q", s |-> "S", t |-> "T", x |-> "X"]

LowerOf ==
  [A |-> "a", B |-> "b", D |-> "d", I |-> "i", N |-> "n", O |-> "o",
   Q |-> "q", S |-> "s", T |-> "t", X |-> "x"]

IsLetter(c) == c \in DOMAIN UpperOf \/ c \in DOMAIN LowerOf

ToUpper(c) == IF c \in DOMAIN UpperOf THEN UpperOf[c] ELSE c

ToLower(c) == IF c \in DOMAIN LowerOf THEN LowerOf[c] ELSE c

\* str.upper()
upper(s) == [i \in 1..Len(s) |-> ToUpper(s[i])]

\* str.title(): a letter that follows a non-letter is upper-cased, every
\* other letter is lower-cased
title(s) ==
  [i \in 1..Len(s) |->
     IF i = 1 \/ ~IsLetter(s[i - 1]) THEN ToUpper(s[i]) ELSE ToLower(s[i])]

RECURSIVE lstrip(_)
lstrip(s) ==
  IF s # <<>> /\ Head(s) \in Whitespace THEN lstrip(Tail(s)) ELSE s

RECURSIVE rstrip(_)
rstrip(s) ==
  IF s # <<>> /\ s[Len(s)] \in Whitespace
    THEN rstrip(SubSeq(s, 1, Len(s) - 1))
    ELSE s

\* str.strip()
strip(s) == rstrip(lstrip(s))

\* str.isdigit()
isdigit(s) == s # <<>> /\ \A i \in 1..Len(s) : s[i] \in Digits

DigitValue ==
  [c \in Digits |->
     CASE c = "0" -> 0 [] c = "1" -> 1 [] c = "2" -> 2 [] c = "3" -> 3
       [] c = "4" -> 4 [] c = "5" -> 5 [] c = "6" -> 6 [] c = "7" -> 7
       [] c = "8" -> 8 [] c = "9" -> 9]

\* int(s) of a text of digits
RECURSIVE int(_)
int(s) ==
  IF s = <<>> THEN 0
  ELSE 10 * int(SubSeq(s, 1, Len(s) - 1)) + DigitValue[s[Len(s)]]

\* int(s) <= 0 for a text of digits: every digit is a zero
IsZero(s) == \A i \in 1..Len(s) : s[i] = "0"

RECURSIVE StripZeros(_)
StripZeros(s) ==
  IF Len(s) > 1 /\ Head(s) = "0" THEN StripZeros(Tail(s)) ELSE s

\* 2^63 - 1, the largest value of an SQLite INTEGER, as decimal text
SQLITE_MAX_INTEGER ==
  <<"9", "2", "2", "3", "3", "7", "2", "0", "3", "6", "8", "5", "4", "7",
    "7", "5", "8", "0", "7">>

RECURSIVE DigitsLeq(_, _)
DigitsLeq(a, b) ==
  IF a = <<>> THEN TRUE
  ELSE IF DigitValue[Head(a)] < DigitValue[Head(b)] THEN TRUE
  ELSE IF DigitValue[Head(a)] > DigitValue[Head(b)] THEN FALSE
  ELSE DigitsLeq(Tail(a), Tail(b))

\* binding a Python int to a statement parameter raises OverflowError (after
\* the transaction was opened) when the value does not fit a signed 64-bit
\* integer
FitsSQLiteInteger(s) ==
  LET d == StripZeros(s)
  IN  \/ Len(d) < Len(SQLITE_MAX_INTEGER)
      \/ Len(d) = Len(SQLITE_MAX_INTEGER) /\ DigitsLeq(d, SQLITE_MAX_INTEGER)

\* re.match(r'^\d{10}$', s): ten digits, then the end of the text or one
\* line break that ends the text
MatchTenDigits(s) ==
  /\ Len(s) >= 10
  /\ \A i \in 1..10 : s[i] \in Digits
  /\ \/ Len(s) = 10
     \/ Len(s) = 11 /\ s[11] = "\n"

validate_mobile_number(mobile_number) ==
  IF mobile_number = <<>> THEN TRUE ELSE MatchTenDigits(mobile_number)

\* ------------------------------------------------------------- the store
\* a nullable column: NULL, or one value
NULL == <<>>

Some(v) == <<v>>

\* the table Patients_temp is absent, or holds the rows copied into it
NoTable == [exists |-> FALSE, rows |-> {}]

Table(rows) == [exists |-> TRUE, rows |-> rows]

\* the database created by setup_database: both tables, no row
EmptyDb == [Patients |-> {}, Medicines |-> EmptyBag, Patients_temp |-> NoTable]

PatientIds(db) == {p.PatientID : p \in db.Patients}

PatientRow(db, id) == CHOOSE p \in db.Patients : p.PatientID = id

\* SELECT Name, Age, Gender, Address, MobileNumber
Fields(p) ==
  [Name |-> p.Name, Age |-> p.Age, Gender |-> p.Gender,
   Address |-> p.Address, MobileNumber |-> p.MobileNumber]

WithKey(id, f, t) ==
  [PatientID |-> id, Name |-> f.Name, Age |-> f.Age, Gender |-> f.Gender,
   Address |-> f.Address, MobileNumber |-> f.MobileNumber, EntryDate |-> t]

\* the rows of a bag of Medicines rows whose PatientID is in ids
MedicinesOf(B, ids) ==
  [m \in {x \in DOMAIN B : x.PatientID \in ids} |-> B[m]]

MedicinesNotOf(B, ids) ==
  [m \in {x \in DOMAIN B : x.PatientID \notin ids} |-> B[m]]

\* UPDATE Medicines SET PatientID = new WHERE PatientID = old
Repoint(B, old, new) ==
  LET keep == {x \in DOMAIN B : x.PatientID # old}
      moved == {[x EXCEPT !.PatientID = new] : x \in DOMAIN B \ keep}
  IN  [m \in keep \cup moved |->
         (IF m \in keep THEN B[m] ELSE 0)
         + (IF m \in moved THEN B[[m EXCEPT !.PatientID = old]] ELSE 0)]

\* ------------------------------------------------------------ statements
\* The connection: live is the content seen through it, file the committed
\* content of patientcare.db.  With the default isolation level the sqlite3
\* module opens a transaction before INSERT, UPDATE and DELETE only; any
\* other statement that runs outside a transaction is committed at once.
Begin(st) == [st EXCEPT !.in_transaction = TRUE]

\* conn.commit()
Commit(st) == [st EXCEPT !.file = st.live, !.in_transaction = FALSE]

\* conn.rollback()
Rollback(st) == [st EXCEPT !.live = st.file, !.in_transaction = FALSE]

\* PRAGMA foreign_keys = on: no effect inside a transaction
Pragma(st, on) ==
  IF st.in_transaction THEN st ELSE [st EXCEPT !.foreign_keys = on]

Ok(st) == [st |-> st, exc |-> "none"]

Raise(st, e) == [st |-> st, exc |-> e]

\* INSERT INTO Patients (PatientID, Name, Age, ...) VALUES (...); Age is
\* bound as NULL or as int(age), EntryDate takes CURRENT_TIMESTAMP
InsertPatient(st, s, t) ==
  IF s.Age # NULL /\ ~FitsSQLiteInteger(s.Age[1])
    THEN Raise(Begin(st), "OverflowError")
  ELSE IF s.PatientID \in PatientIds(st.live)
    THEN Raise(Begin(st), "sqlite3.Error")
  ELSE LET f == [Name |-> s.Name,
                 Age |-> IF s.Age = NULL THEN NULL ELSE Some(int(s.Age[1])),
                 Gender |-> s.Gender, Address |-> s.Address,
                 MobileNumber |-> s.MobileNumber]
       IN  Ok([Begin(st) EXCEPT
                 !.live.Patients = @ \cup {WithKey(s.PatientID, f, t)}])

\* INSERT INTO Medicines (PatientID, MedicineName, StartDate, Quantity,
\* Frequency, EndDate) VALUES (...); Quantity is bound as int(qty_text)
InsertMedicine(st, s) ==
  IF ~FitsSQLiteInteger(s.Quantity)
    THEN Raise(Begin(st), "OverflowError")
  ELSE IF st.foreign_keys /\ s.PatientID \notin PatientIds(st.live)
    THEN Raise(Begin(st), "sqlite3.Error")
  ELSE LET row == [PatientID |-> s.PatientID, MedicineName |-> s.MedicineName,
                   StartDate |-> s.StartDate, Quantity |-> int(s.Quantity),
                   Frequency |-> s.Frequency, EndDate |-> s.EndDate]
       IN  Ok([Begin(st) EXCEPT !.live.Medicines = @ (+) SetToBag({row})])

\* UPDATE Patients SET Name=?, Age=?, Gender=?, Address=?, MobileNumber=?
\* WHERE PatientID=?
UpdatePatient(st, s) ==
  IF s.Age # NULL /\ ~FitsSQLiteInteger(s.Age[1])
    THEN Raise(Begin(st), "OverflowError")
  ELSE LET f == [Name |-> s.Name,
                 Age |-> IF s.Age = NULL THEN NULL ELSE Some(int(s.Age[1])),
                 Gender |-> s.Gender, Address |-> s.Address,
                 MobileNumber |-> s.MobileNumber]
       IN  Ok([Begin(st) EXCEPT
                 !.live.Patients =
                    {IF p.PatientID = s.PatientID
                       THEN WithKey(p.PatientID, f, p.EntryDate)
                       ELSE p : p \in @}])

\* an update that keeps the rows it should replace
KeepMedicines(st, s) == Ok(Begin(st))

\* DELETE FROM Medicines WHERE PatientID=?
DeleteMedicines(st, s) ==
  Ok([Begin(st) EXCEPT !.live.Medicines = MedicinesNotOf(@, {s.PatientID})])

\* DELETE FROM Patients [WHERE PatientID=?]: with foreign keys on, ON DELETE
\* CASCADE removes the Medicines rows of the deleted patients
DeletePatients(st, ids) ==
  Ok([Begin(st) EXCEPT
        !.live.Patients = {p \in @ : p.PatientID \notin ids},
        !.live.Medicines =
           IF st.foreign_keys THEN MedicinesNotOf(@, ids) ELSE @])

\* CREATE TABLE IF NOT EXISTS Patients_temp AS SELECT * FROM Patients
CreateTemp(st) ==
  IF st.live.Patients_temp.exists THEN Ok(st)
  ELSE LET made == [st EXCEPT !.live.Patients_temp = Table(st.live.Patients)]
       IN  Ok(IF st.in_transaction THEN made
              ELSE [made EXCEPT !.file.Patients_temp = Table(st.live.Patients)])

\* SELECT Name, Age, Gender, Address, MobileNumber FROM Patients_temp WHERE
\* PatientID=old; fetchone(); if a row came back, INSERT INTO Patients
\* (PatientID, Name, Age, Gender, Address, MobileNumber) with the new key
Reinsert(st, s, t) ==
  LET found == {p \in st.live.Patients_temp.rows : p.PatientID = s.old}
  IN  IF ~st.live.Patients_temp.exists THEN Raise(st, "sqlite3.Error")
      ELSE IF found = {} THEN Ok(st)
      ELSE IF s.new \in PatientIds(st.live)
        THEN Raise(Begin(st), "sqlite3.Error")
      ELSE LET data == Fields(CHOOSE p \in found : TRUE)
           IN  Ok([Begin(st) EXCEPT
                     !.live.Patients = @ \cup {WithKey(s.new, data, t)}])

\* UPDATE Medicines SET PatientID=new WHERE PatientID=old
UpdateMedicineKeys(st, s) ==
  LET hit == {x \in DOMAIN st.live.Medicines : x.PatientID = s.old}
  IN  IF st.foreign_keys /\ hit # {} /\ s.new \notin PatientIds(st.live)
        THEN Raise(Begin(st), "sqlite3.Error")
        ELSE Ok([Begin(st) EXCEPT
                   !.live.Medicines = Repoint(@, s.old, s.new)])

\* DROP TABLE Patients_temp
DropTemp(st) ==
  IF ~st.live.Patients_temp.exists THEN Raise(st, "sqlite3.Error")
  ELSE LET gone == [st EXCEPT !.live.Patients_temp = NoTable]
       IN  Ok(IF st.in_transaction THEN gone
              ELSE [gone EXCEPT !.file.Patients_temp = NoTable])

\* one cursor.execute(...) or conn.commit() at time t
Exec(st, s, t) ==
  CASE s.op = "INSERT_PATIENT" -> InsertPatient(st, s, t)
    [] s.op = "INSERT_MEDICINE" -> InsertMedicine(st, s)
    [] s.op = "UPDATE_PATIENT" -> UpdatePatient(st, s)
    [] s.op = "DELETE_MEDICINES" -> DeleteMedicines(st, s)
    [] s.op = "DELETE_PATIENT" -> DeletePatients(st, {s.PatientID})
    [] s.op = "DELETE_ALL_PATIENTS" -> DeletePatients(st, PatientIds(st.live))
    [] s.op = "CREATE_TEMP" -> CreateTemp(st)
    [] s.op = "REINSERT" -> Reinsert(st, s, t)
    [] s.op = "UPDATE_MEDICINE_KEYS" -> UpdateMedicineKeys(st, s)
    [] s.op = "DROP_TEMP" -> DropTemp(st)
    [] s.op = "COMMIT" -> Ok(Commit(st))

\* Run the statements from the i-th on, in order, until one raises.  The
\* statement numbered fault raises sqlite3.Error (I/O error, disk full,
\* database locked) before it has any effect; fault = 0 injects nothing.
\* On a closed connection every statement raises sqlite3.ProgrammingError,
\* which is a sqlite3.Error.
RECURSIVE RunFrom(_, _, _, _, _)
RunFrom(st, stmts, i, fault, t) ==
  IF i > Len(stmts) THEN [st |-> st, exc |-> "none", at |-> 0]
  ELSE IF ~st.connected THEN [st |-> st, exc |-> "sqlite3.Error", at |-> i]
  ELSE IF i = fault
    THEN [st |-> IF stmts[i].op \in {"CREATE_TEMP", "DROP_TEMP", "COMMIT"}
                   THEN st ELSE Begin(st),
          exc |-> "sqlite3.Error", at |-> i]
  ELSE LET r == Exec(st, stmts[i], t)
       IN  IF r.exc # "none" THEN [st |-> r.st, exc |-> r.exc, at |-> i]
           ELSE RunFrom(r.st, stmts, i + 1, fault, t)

Run(st, stmts, fault, t) == RunFrom(st, stmts, 1, fault, t)

\* -------------------------------------------------------------- the form
\* What the entry form holds when a button is pressed: the text of the
\* patient fields and the medicine rows (name, start date, quantity text,
\* frequency text, end date; the dates come from date pickers, as days).
MedRow(name, qty, freq) ==
  [name |-> name, start |-> 0, qty |-> qty, freq |-> freq, end |-> 0]

Form(name, age, mobile, meds) ==
  [name |-> name, age |-> age, gender |-> <<"X">>, address |-> <<>>,
   mobile |-> mobile, meds |-> meds]

TenDigits == <<"9", "8", "7", "6", "5", "4", "3", "2", "1", "0">>

TwentyNines == [i \in 1..20 |-> "9"]

Abx == <<"a", "b", "x">>

Dox == <<"d", "o", "x">>

FormAnn ==
  Form(<<"a", "n", "n">>, <<"4", "0">>, TenDigits,
       <<MedRow(Abx, <<"1", "0">>, <<"o", "d">>)>>)

FormBob ==
  Form(<<" ", "B", "O", "B">>, <<>>, <<>>,
       <<MedRow(Dox, <<"4">>, <<"B", "D">>), MedRow(<<>>, <<>>, <<>>),
         MedRow(Abx, <<"0", "2">>, <<"q", "i", "d">>)>>)

\* a quantity that is a positive integer but does not fit an SQLite INTEGER
FormHuge ==
  Form(<<"b", "o", "b">>, <<>>, <<>>,
       <<MedRow(Dox, <<"4">>, <<"b", "d">>),
         MedRow(Abx, TwentyNines, <<"o", "d">>)>>)

ValidForms == {FormAnn, FormBob, FormHuge}

InvalidForms ==
  {[FormAnn EXCEPT !.name = <<" ">>],
   [FormAnn EXCEPT !.age = <<"4", "x">>],
   [FormAnn EXCEPT !.mobile = <<"9", "8", "7", "6", "5">>],
   [FormAnn EXCEPT !.meds = <<MedRow(Abx, <<"0">>, <<"o", "d">>)>>],
   [FormAnn EXCEPT !.meds = <<MedRow(Abx, <<"x">>, <<"o", "d">>)>>],
   [FormAnn EXCEPT !.meds = <<MedRow(Abx, <<"1">>, <<"x", "d">>)>>],
   [FormAnn EXCEPT !.meds = <<MedRow(<<" ">>, <<"1">>, <<"o", "d">>)>>],
   [FormAnn EXCEPT !.meds = <<>>]}

Forms == ValidForms \cup InvalidForms

NoForm == Form(<<>>, <<>>, <<>>, <<>>)

Frequencies == {<<"O", "D">>, <<"B", "D">>, <<"T", "D", "S">>,
                <<"Q", "I", "D">>}

\* the loop over self.meds: rows without a name are skipped, the first
\* named row with a bad quantity or frequency ends the handler
RECURSIVE CollectMeds(_, _, _)
CollectMeds(meds, i, data) ==
  IF i > Len(meds) THEN [err |-> "none", data |-> data]
  ELSE LET mname == title(strip(meds[i].name))
           qty_text == strip(meds[i].qty)
           freq == upper(strip(meds[i].freq))
       IN  IF mname = <<>> THEN CollectMeds(meds, i + 1, data)
           ELSE IF ~isdigit(qty_text) \/ IsZero(qty_text)
             THEN [err |-> "quantity", data |-> data]
           ELSE IF freq \notin Frequencies
             THEN [err |-> "frequency", data |-> data]
           ELSE CollectMeds(meds, i + 1,
                  Append(data, [MedicineName |-> mname,
                                StartDate |-> meds[i].start,
                                Quantity |-> qty_text,
                                Frequency |-> freq,
                                EndDate |-> meds[i].end]))

\* a validation without the check of the mobile number
ValidateWithoutMobile(form) ==
  LET name == title(strip(form.name))
      age == strip(form.age)
      mobile == strip(form.mobile)
      c == CollectMeds(form.meds, 1, <<>>)
      fields == [Name |-> name,
                 Age |-> IF age = <<>> THEN NULL ELSE Some(age),
                 Gender |-> strip(form.gender),
                 Address |-> strip(form.address),
                 MobileNumber |-> IF mobile = <<>> THEN NULL ELSE Some(mobile)]
      err == IF name = <<>> THEN "name"
             ELSE IF age # <<>> /\ ~isdigit(age) THEN "age"
             ELSE IF c.err # "none" THEN c.err
             ELSE IF c.data = <<>> THEN "no medicine"
             ELSE "none"
  IN  [err |-> err, fields |-> fields, meds_data |-> c.data]

\* the validation at the head of save and update: the fields as they will be
\* bound, or the first validation error
Validate(form) ==
  LET name == title(strip(form.name))
      age == strip(form.age)
      mobile == strip(form.mobile)
      c == CollectMeds(form.meds, 1, <<>>)
      fields == [Name |-> name,
                 Age |-> IF age = <<>> THEN NULL ELSE Some(age),
                 Gender |-> strip(form.gender),
                 Address |-> strip(form.address),
                 MobileNumber |-> IF mobile = <<>> THEN NULL ELSE Some(mobile)]
      err == IF name = <<>> THEN "name"
             ELSE IF age # <<>> /\ ~isdigit(age) THEN "age"
             ELSE IF mobile # <<>> /\ ~validate_mobile_number(mobile)
               THEN "mobile"
             ELSE IF c.err # "none" THEN c.err
             ELSE IF c.data = <<>> THEN "no medicine"
             ELSE "none"
  IN  [err |-> err, fields |-> fields, meds_data |-> c.data]

\* Validate over the forms of the model
Validated == [form \in Forms |-> Validate(form)]

InsertPatientStmt(id, f) ==
  [op |-> "INSERT_PATIENT", PatientID |-> id, Name |-> f.Name, Age |-> f.Age,
   Gender |-> f.Gender, Address |-> f.Address, MobileNumber |-> f.MobileNumber]

UpdatePatientStmt(id, f) ==
  [op |-> "UPDATE_PATIENT", PatientID |-> id, Name |-> f.Name, Age |-> f.Age,
   Gender |-> f.Gender, Address |-> f.Address, MobileNumber |-> f.MobileNumber]

InsertMedicineStmts(id, meds_data) ==
  [i \in 1..Len(meds_data) |->
     [op |-> "INSERT_MEDICINE", PatientID |-> id,
      MedicineName |-> meds_data[i].MedicineName,
      StartDate |-> meds_data[i].StartDate,
      Quantity |-> meds_data[i].Quantity,
      Frequency |-> meds_data[i].Frequency,
      EndDate |-> meds_data[i].EndDate]]

\* ----------------------------------------------------------------- state
VARIABLES
  file,            \* committed content of patientcare.db
  live,            \* content seen through conn: file plus the open transaction
  in_transaction,  \* conn has an open transaction
  connected,       \* conn is open: conn.close() has not been called on it
  foreign_keys,    \* PRAGMA foreign_keys of conn
  editing_id,      \* self.editing_id, None when nothing is being edited
  tree,            \* PatientIDs of the rows shown in self.tree
  backups,         \* archives written by backup_data
  now,             \* the clock behind CURRENT_TIMESTAMP
  last             \* the handler that ran last and how it ended

\* the store file and the connection to it
conn_vars == <<file, live, in_transaction, foreign_keys, connected>>

vars == <<conn_vars, editing_id, tree, backups, now, last>>

None == 0

Conn ==
  [live |-> live, file |-> file, foreign_keys |-> foreign_keys,
   in_transaction |-> in_transaction, connected |-> connected]

SetConn(st) ==
  /\ live' = st.live
  /\ file' = st.file
  /\ foreign_keys' = st.foreign_keys
  /\ in_transaction' = st.in_transaction
  /\ connected' = st.connected

Did(op, outcome, id, form, reseq) ==
  [op |-> op, outcome |-> outcome, id |-> id, form |-> form, reseq |-> reseq]

\* setup_database on a new file, then PatientCareApp.__init__
Init ==
  /\ file = EmptyDb
  /\ live = EmptyDb
  /\ in_transaction = FALSE
  /\ foreign_keys = TRUE
  /\ connected = TRUE
  /\ editing_id = None
  /\ tree = {}
  /\ backups = {}
  /\ now = 0
  /\ last = Did("init", "ok", None, NoForm, "none")

\* ------------------------------------------------- identifier maintenance
\* for candidate_id in range(1, max(existing_ids or [0]) + 2)
RECURSIVE FirstMissing(_, _, _)
FirstMissing(existing_ids, candidate_id, stop) ==
  IF candidate_id >= stop THEN 1
  ELSE IF candidate_id \notin existing_ids THEN candidate_id
  ELSE FirstMissing(existing_ids, candidate_id + 1, stop)

Max(S) == CHOOSE m \in S : \A x \in S : x <= m

\* a counter instead of the search for the first gap
NextAfterLargest(db) ==
  IF PatientIds(db) = {} THEN 1 ELSE Max(PatientIds(db)) + 1

get_next_available_patient_id(db) ==
  LET existing_ids == PatientIds(db)
      top == IF existing_ids = {} THEN 0 ELSE Max(existing_ids)
  IN  FirstMissing(existing_ids, 1, top + 2)

\* SELECT PatientID FROM Patients ORDER BY PatientID
RECURSIVE Ascending(_)
Ascending(S) ==
  IF S = {} THEN <<>>
  ELSE LET least == CHOOSE m \in S : \A x \in S : m <= x
       IN  <<least>> \o Ascending(S \ {least})

\* the statements of the inner try block of resequence_patient_ids, for
\* mapping = {old_id: position of old_id in ids}
ResequenceStmts(ids) ==
  <<[op |-> "CREATE_TEMP"], [op |-> "DELETE_ALL_PATIENTS"]>>
  \o [k \in 1..Len(ids) |-> [op |-> "REINSERT", old |-> ids[k], new |-> k]]
  \o [k \in 1..Len(ids) |->
        [op |-> "UPDATE_MEDICINE_KEYS", old |-> ids[k], new |-> k]]
  \o <<[op |-> "DROP_TEMP"], [op |-> "COMMIT"]>>

\* resequence_patient_ids: fault 1 is the SELECT of the identifiers, fault
\* k > 1 the statement k - 1 of the inner try block
resequence_patient_ids(st, fault, t) ==
  LET ids == Ascending(PatientIds(st.live))
  IN  IF fault = 1 \/ ~st.connected
        THEN [st |-> st, outcome |-> "select failed"]
      ELSE IF ids = <<>> THEN [st |-> st, outcome |-> "empty"]
      ELSE LET off == Commit(Pragma(st, FALSE))
               r == Run(off, ResequenceStmts(ids), fault - 1, t)
           IN  IF r.exc = "none"
                 THEN [st |-> Commit(Pragma(r.st, TRUE)), outcome |-> "ok"]
               ELSE IF r.exc = "sqlite3.Error"
                 THEN [st |-> Pragma(Rollback(r.st), TRUE),
                       outcome |-> IF r.at = 1 THEN "copy failed"
                                   ELSE "rolled back"]
               ELSE [st |-> r.st, outcome |-> r.exc]

\* --------------------------------------------------------------- handlers
\* PatientCareApp.load: the tree shows one row per joined row of Patients
load(db) == PatientIds(db)

\* PatientCareApp.save with the form as filled in.  fault 1 is the SELECT of
\* get_next_available_patient_id, fault k > 1 the statement k - 1 of the
\* try block (patient insert, medicine inserts, commit).
Save(form, fault) ==
  LET v == Validated[form]
      next_id == get_next_available_patient_id(live)
      stmts == <<InsertPatientStmt(next_id, v.fields)>>
               \o InsertMedicineStmts(next_id, v.meds_data)
               \o <<[op |-> "COMMIT"]>>
      r == Run(Conn, stmts, fault - 1, now)
  IN  /\ Cardinality(live.Patients) < MaxPatients
      /\ fault <= Len(stmts) + 1
      /\ UNCHANGED <<backups, now>>
      /\ IF v.err # "none"
           THEN /\ fault = 0
                /\ UNCHANGED <<conn_vars, editing_id, tree>>
                /\ last' = Did("save", "invalid", None, NoForm, "none")
         ELSE IF fault = 1 \/ ~connected
           THEN /\ UNCHANGED <<conn_vars, editing_id, tree>>
                /\ last' = Did("save", "no id", None, NoForm, "none")
         ELSE IF r.exc = "none"
           THEN /\ SetConn(r.st)
                /\ editing_id' = None
                /\ tree' = load(r.st.live)
                /\ last' = Did("save", "ok", next_id, form, "none")
         ELSE IF r.exc = "sqlite3.Error"
           THEN /\ SetConn(Rollback(r.st))
                /\ UNCHANGED <<editing_id, tree>>
                /\ last' = Did("save", r.exc, None, NoForm, "none")
         ELSE /\ SetConn(r.st)
              /\ UNCHANGED <<editing_id, tree>>
              /\ last' = Did("save", r.exc, None, NoForm, "none")

\* the statements of the try block of update: the patient update, the
\* medicine delete, the medicine inserts and the commit, all keyed by the
\* identifier kept since select_record
UpdateStmts(id, v) ==
  <<UpdatePatientStmt(id, v.fields),
    [op |-> "DELETE_MEDICINES", PatientID |-> id]>>
  \o InsertMedicineStmts(id, v.meds_data)
  \o <<[op |-> "COMMIT"]>>

\* PatientCareApp.update with the form as filled in.  fault k is the
\* statement k of the try block (patient update, medicine delete, medicine
\* inserts, commit).
Update(form, fault) ==
  LET v == Validated[form]
      stmts == UpdateStmts(editing_id, v)
      r == Run(Conn, stmts, fault, now)
  IN  /\ fault <= Len(stmts)
      /\ UNCHANGED <<backups, now>>
      /\ IF editing_id = None
           THEN /\ fault = 0
                /\ UNCHANGED <<conn_vars, editing_id, tree>>
                /\ last' = Did("update", "no selection", None, NoForm, "none")
         ELSE IF v.err # "none"
           THEN /\ fault = 0
                /\ UNCHANGED <<conn_vars, editing_id, tree>>
                /\ last' = Did("update", "invalid", None, NoForm, "none")
         ELSE IF r.exc = "none"
           THEN /\ SetConn(r.st)
                /\ editing_id' = None
                /\ tree' = load(r.st.live)
                /\ last' = Did("update", "ok", editing_id, form, "none")
         ELSE IF r.exc = "sqlite3.Error"
           THEN /\ SetConn(Rollback(r.st))
                /\ UNCHANGED <<editing_id, tree>>
                /\ last' = Did("update", r.exc, None, NoForm, "none")
         ELSE /\ SetConn(r.st)
              /\ UNCHANGED <<editing_id, tree>>
              /\ last' = Did("update", r.exc, None, NoForm, "none")

\* PatientCareApp.delete of the row selected in the tree.  fault k is the
\* statement k of the try block (medicine delete, patient delete, commit),
\* rfault the fault of the resequencing that follows the commit.
Delete(patient_id, confirm, fault, rfault) ==
  LET stmts == <<[op |-> "DELETE_MEDICINES", PatientID |-> patient_id],
                 [op |-> "DELETE_PATIENT", PatientID |-> patient_id],
                 [op |-> "COMMIT"]>>
      r == Run(Conn, stmts, fault, now)
      q == resequence_patient_ids(r.st, rfault, now)
  IN  /\ patient_id \in tree
      /\ UNCHANGED <<backups, now, editing_id>>
      /\ IF ~confirm
           THEN /\ fault = 0 /\ rfault = 0
                /\ UNCHANGED <<conn_vars, tree>>
                /\ last' = Did("delete", "declined", None, NoForm, "none")
         ELSE IF r.exc = "none"
           THEN /\ rfault <= 2 * Cardinality(r.st.live.Patients) + 5
                /\ SetConn(q.st)
                /\ tree' = load(q.st.live)
                /\ last' = Did("delete", "ok", patient_id, NoForm, q.outcome)
         ELSE /\ rfault = 0
              /\ SetConn(Rollback(r.st))
              /\ UNCHANGED tree
              /\ last' = Did("delete", r.exc, None, NoForm, "none")

\* the Load button: the rows of the tree are removed before the SELECT runs
Load ==
  /\ tree' = IF connected THEN load(live) ELSE {}
  /\ last' = Did("load", IF connected THEN "ok" ELSE "sqlite3.Error", None,
                 NoForm, "none")
  /\ UNCHANGED <<conn_vars, editing_id, backups, now>>

\* PatientCareApp.select_record: a double click on a row of the tree
SelectRecord(patient_id) ==
  /\ patient_id \in tree
  /\ IF ~connected
       THEN /\ UNCHANGED editing_id
            /\ last' = Did("select_record", "failed", None, NoForm, "none")
     ELSE IF patient_id \in PatientIds(live)
       THEN /\ editing_id' = patient_id
            /\ last' = Did("select_record", "ok", None, NoForm, "none")
       ELSE /\ UNCHANGED editing_id
            /\ last' = Did("select_record", "not found", None, NoForm, "none")
  /\ UNCHANGED <<conn_vars, tree, backups, now>>

\* ------------------------------------------------------ backup and restore
\* backup_data: the archive holds a copy of the store file and the metadata
\* (time stamp, row counts read through the cursor); the archive is named by
\* its time stamp, so a second backup at the same time replaces the first
Archive ==
  [is_archive |-> TRUE, backup_date |-> now, db |-> file,
   patients |-> Cardinality(live.Patients),
   medicines |-> BagCardinality(live.Medicines)]

\* any other file the user can pick in the file dialog of restore_data
OtherFile ==
  [is_archive |-> FALSE, backup_date |-> 0, db |-> EmptyDb, patients |-> 0,
   medicines |-> 0]

\* backup_data; written says whether the archive file could be created.
\* On a closed connection the row counts cannot be read: the archive is left
\* with the store file in it and no metadata
Backup(written) ==
  LET kept == {b \in backups : b.backup_date # now}
      made == IF connected THEN Archive
              ELSE [OtherFile EXCEPT !.backup_date = now, !.db = file]
  IN  /\ Cardinality(kept) < MaxBackups
      /\ backups' = IF written THEN kept \cup {made} ELSE backups
      /\ last' = Did("backup", IF written /\ connected THEN "ok" ELSE "failed",
                     None, NoForm, "none")
      /\ UNCHANGED <<conn_vars, editing_id, tree, now>>

\* restore_dir = os.path.join(os.path.dirname(get_db_path())), "restore_temp"
\* binds a pair, not a path
restore_dir == [type |-> "tuple", items |-> <<"db_dir", "restore_temp">>]

\* a makedirs that takes whatever it is given
makedirs_any(path) == "ok"

\* os.makedirs(path, exist_ok=True)
makedirs(path) == IF path.type = "str" THEN "ok" ELSE "TypeError"

\* sqlite3.connect(get_db_path()): a new connection on the file as it is on
\* disk; the connection it replaces is closed, which drops its open
\* transaction; foreign keys are off on a new connection
Connect(st) ==
  [live |-> st.file, file |-> st.file, foreign_keys |-> FALSE,
   in_transaction |-> FALSE, connected |-> TRUE]

\* conn.close(): the open transaction is dropped
Close(st) ==
  [st EXCEPT !.live = st.file, !.in_transaction = FALSE, !.connected = FALSE]

\* the steps of restore_data that can fail once the temporary directory is
\* there: reading the archive, shutil.copyfile, the sqlite3.connect that
\* follows it
RestoreSteps == {"none", "extract", "copyfile", "connect"}

\* the try block of restore_data from os.makedirs on, with the archive picked
\* in the file dialog; failing is the step at which the environment fails.
\* A file that is no archive, or lacks one of its two members, fails at
\* extraction or validation, before the connection is closed.
RestoreTry(st, archive, failing) ==
  IF makedirs(restore_dir) # "ok" THEN Raise(st, "TypeError")
  ELSE IF failing = "extract" \/ ~archive.is_archive
    THEN Raise(st, "Exception")
  ELSE IF failing = "copyfile" THEN Raise(Close(st), "OSError")
  ELSE IF failing = "connect"
    THEN Raise([Close(st) EXCEPT !.file = archive.db, !.live = archive.db],
               "sqlite3.Error")
  ELSE Ok(Connect([st EXCEPT !.file = archive.db]))

\* restore_data; reconnects says whether the sqlite3.connect of the except
\* block succeeds
Restore(archive, confirm, failing, reconnects) ==
  LET r == RestoreTry(Conn, archive, failing)
  IN  /\ archive \in backups \cup {OtherFile}
      /\ UNCHANGED <<editing_id, tree, backups, now>>
      /\ IF ~confirm
           THEN /\ failing = "none" /\ reconnects
                /\ UNCHANGED conn_vars
                /\ last' = Did("restore", "declined", None, NoForm, "none")
         ELSE IF r.exc = "none"
           THEN /\ reconnects
                /\ SetConn(r.st)
                /\ last' = Did("restore", "ok", None, NoForm, "none")
         ELSE /\ SetConn(IF reconnects THEN Connect(r.st) ELSE r.st)
              /\ last' = Did("restore", "failed", None, NoForm, "none")

\* ------------------------------------------------------ dosage calculator
\* The values a caller can pass to the dosage functions and get back: text,
\* an integer, None.  Raised(e) is an exception on its way out of a block.
Text(s) == [type |-> "str", val |-> s]

Number(n) == [type |-> "int", val |-> n]

PyNone == [type |-> "NoneType", val |-> 0]

Raised(e) == [type |-> "raise", val |-> e]

max(a, b) == IF a >= b THEN a ELSE b

\* the proleptic Gregorian calendar of datetime.date
IsLeap(year) == year % 4 = 0 /\ (year % 100 # 0 \/ year % 400 = 0)

DaysInMonth(year, month) ==
  IF month = 2 THEN (IF IsLeap(year) THEN 29 ELSE 28)
  ELSE IF month \in {4, 6, 9, 11} THEN 30
  ELSE 31

RECURSIVE DaysBeforeMonth(_, _)
DaysBeforeMonth(year, month) ==
  IF month = 1 THEN 0
  ELSE DaysBeforeMonth(year, month - 1) + DaysInMonth(year, month - 1)

DaysBeforeYear(year) ==
  LET y == year - 1
  IN  y * 365 + (y \div 4) - (y \div 100) + (y \div 400)

Date(year, month, day) == [year |-> year, month |-> month, day |-> day]

\* date.toordinal(): 0001-01-01 is day 1
toordinal(d) ==
  DaysBeforeYear(d.year) + DaysBeforeMonth(d.year, d.month) + d.day

\* date.max is 9999-12-31
MaxOrdinal == DaysBeforeYear(10000)

\* date.fromordinal(n) for n in 1..MaxOrdinal
fromordinal(n) ==
  LET year == CHOOSE y \in (n \div 366)..((n \div 365) + 1) :
                DaysBeforeYear(y) < n /\ n <= DaysBeforeYear(y + 1)
      rest == n - DaysBeforeYear(year)
      month == CHOOSE m \in 1..12 :
                 /\ DaysBeforeMonth(year, m) < rest
                 /\ rest <= DaysBeforeMonth(year, m) + DaysInMonth(year, m)
  IN  Date(year, month, rest - DaysBeforeMonth(year, month))

DigitChar(d) == CHOOSE c \in Digits : DigitValue[c] = d

\* str(n) for n >= 0
RECURSIVE Decimal(_)
Decimal(n) ==
  IF n < 10 THEN <<DigitChar(n)>>
  ELSE Decimal(n \div 10) \o <<DigitChar(n % 10)>>

\* %m and %d of strftime: two digits
TwoDigits(n) == <<DigitChar(n \div 10), DigitChar(n % 10)>>

\* date.strftime("%Y-%m-%d"); the C library writes a year below 1000
\* without leading zeros
strftime(d) ==
  Decimal(d.year) \o <<"-">> \o TwoDigits(d.month) \o <<"-">>
    \o TwoDigits(d.day)

\* datetime.strptime(s, "%Y-%m-%d").date(): four digits, a month of one or
\* two digits, a day of one or two digits or a blank and a digit; ValueError
\* for any other text and for a day that the month does not have, TypeError
\* for a value that is not text
strptime(v) ==
  IF v.type # "str" THEN Raised("TypeError")
  ELSE
    LET s == v.val
        dashes == {i \in 1..Len(s) : s[i] = "-"}
        i == CHOOSE a \in dashes : \A b \in dashes : a <= b
        j == CHOOSE a \in dashes : \A b \in dashes : b <= a
        Y == SubSeq(s, 1, i - 1)
        m == SubSeq(s, i + 1, j - 1)
        d == SubSeq(s, j + 1, Len(s))
        day == IF Len(d) = 2 /\ d[1] = " " THEN Tail(d) ELSE d
    IN  IF Cardinality(dashes) # 2 THEN Raised("ValueError")
        ELSE IF ~(Len(Y) = 4 /\ isdigit(Y) /\ int(Y) >= 1)
          THEN Raised("ValueError")
        ELSE IF ~(isdigit(m) /\ Len(m) <= 2 /\ int(m) \in 1..12)
          THEN Raised("ValueError")
        ELSE IF ~(/\ isdigit(day) /\ Len(d) <= 2
                  /\ int(day) \in 1..DaysInMonth(int(Y), int(m)))
          THEN Raised("ValueError")
        ELSE [type |-> "date", val |-> Date(int(Y), int(m), int(day))]

\* a lookup that does not fold the case of the code
frequency_to_daily_count_exact(freq) ==
  IF freq.type # "str" THEN 1
  ELSE IF freq.val = <<"B", "D">> THEN 2
  ELSE IF freq.val = <<"T", "D", "S">> THEN 3
  ELSE IF freq.val = <<"Q", "I", "D">> THEN 4
  ELSE 1

\* {'OD': 1, 'BD': 2, 'TDS': 3, 'QID': 4}.get(freq.upper(), 1); a value
\* without upper() raises AttributeError, which is caught: 1
frequency_to_daily_count(freq) ==
  IF freq.type # "str" THEN 1
  ELSE LET code == upper(freq.val)
       IN  IF code = <<"O", "D">> THEN 1
           ELSE IF code = <<"B", "D">> THEN 2
           ELSE IF code = <<"T", "D", "S">> THEN 3
           ELSE IF code = <<"Q", "I", "D">> THEN 4
           ELSE 1

\* a count that takes the day of today as taken already
remaining_tablets_try_day_ahead(start, end, qty, freq, today) ==
  LET daily == frequency_to_daily_count(freq)
      s == strptime(start)
      e == strptime(end)
  IN  IF s.type = "raise" \/ e.type = "raise" THEN Number(0)
      ELSE IF today > toordinal(e.val) THEN Number(0)
      ELSE IF qty.type # "int" THEN Raised("TypeError")
      ELSE LET taken == (max(today - toordinal(s.val), 0) + 1) * daily
           IN  Number(max(qty.val - taken, 0))

\* the try block of calculate_remaining_tablets, today being
\* datetime.today().date() as an ordinal
remaining_tablets_try(start, end, qty, freq, today) ==
  LET daily == frequency_to_daily_count(freq)
      s == strptime(start)
      e == strptime(end)
  IN  IF s.type = "raise" \/ e.type = "raise" THEN Number(0)
      ELSE IF today > toordinal(e.val) THEN Number(0)
      ELSE IF qty.type # "int" THEN Raised("TypeError")
      ELSE LET taken == max(today - toordinal(s.val), 0) * daily
           IN  Number(max(qty.val - taken, 0))

\* a count that goes on after the end date
remaining_tablets_past_end(start, end, qty, freq, today) ==
  LET daily == frequency_to_daily_count(freq)
      s == strptime(start)
      e == strptime(end)
  IN  IF s.type = "raise" \/ e.type = "raise" \/ qty.type # "int"
        THEN Number(0)
      ELSE Number(max(qty.val
                        - max(today - toordinal(s.val), 0) * daily, 0))

\* calculate_remaining_tablets: except Exception: return 0
calculate_remaining_tablets(start, end, qty, freq, today) ==
  LET r == remaining_tablets_try(start, end, qty, freq, today)
  IN  IF r.type = "raise" THEN Number(0) ELSE r

\* a calculation that counts the days needed from the day after the start
end_date_try_day_late(start_date, qty, freq) ==
  LET daily == frequency_to_daily_count(freq)
  IN  IF qty.type # "int" THEN Raised("TypeError")
      ELSE
        LET days_needed == (qty.val + daily - 1) \div daily
            start == strptime(start_date)
            end == toordinal(start.val) + days_needed
        IN  IF start.type = "raise" THEN start_date
            ELSE IF days_needed > 999999999 THEN Raised("OverflowError")
            ELSE IF end < 1 \/ end > MaxOrdinal THEN Raised("OverflowError")
            ELSE Text(strftime(fromordinal(end)))

\* the try block of calculate_end_date: qty + daily - 1 raises TypeError for
\* a quantity that is no number; a date outside 0001-01-01..9999-12-31 and
\* a timedelta of more than 999999999 days raise OverflowError
end_date_try(start_date, qty, freq) ==
  LET daily == frequency_to_daily_count(freq)
  IN  IF qty.type # "int" THEN Raised("TypeError")
      ELSE
        LET days_needed == (qty.val + daily - 1) \div daily
            start == strptime(start_date)
            end == toordinal(start.val) + (days_needed - 1)
        IN  IF start.type = "raise" THEN start_date
            ELSE IF days_needed - 1 > 999999999 THEN Raised("OverflowError")
            ELSE IF end < 1 \/ end > MaxOrdinal THEN Raised("OverflowError")
            ELSE Text(strftime(fromordinal(end)))

\* a calculation whose exceptions reach the caller
calculate_end_date_unguarded(start_date, qty, freq) ==
  end_date_try(start_date, qty, freq)

\* calculate_end_date: except Exception: return start_date
calculate_end_date(start_date, qty, freq) ==
  LET r == end_date_try(start_date, qty, freq)
  IN  IF r.type = "raise" THEN start_date ELSE r

\* time passes between two handlers
Tick ==
  /\ now < MaxClock
  /\ now' = now + 1
  /\ UNCHANGED <<conn_vars, editing_id, tree, backups, last>>

\* ---------------------------------------------------------- specification
\* the statements a fault can hit in each handler
SaveFaults(form) ==
  IF Validated[form].err # "none" THEN {0}
  ELSE 0..(Len(Validated[form].meds_data) + 3)

UpdateFaults(form) ==
  IF editing_id = None \/ Validated[form].err # "none" THEN {0}
  ELSE 0..(Len(Validated[form].meds_data) + 3)

DeleteFaults(confirm) == IF confirm THEN 0..3 ELSE {0}

ResequenceFaults(confirm, fault) ==
  IF confirm /\ fault = 0 THEN 0..(2 * MaxPatients + 5) ELSE {0}

\* a handler with the forms it is given, with or without storage faults
SaveStep(forms, faulty) ==
  \E form \in forms :
    \E fault \in IF faulty THEN SaveFaults(form) ELSE {0} : Save(form, fault)

UpdateStep(forms, faulty) ==
  \E form \in forms :
    \E fault \in IF faulty THEN UpdateFaults(form) ELSE {0} :
      Update(form, fault)

DeleteStep(faulty) ==
  \E patient_id \in tree, confirm \in BOOLEAN :
    \E fault \in IF faulty THEN DeleteFaults(confirm) ELSE {0} :
      \E rfault \in IF faulty THEN ResequenceFaults(confirm, fault) ELSE {0} :
        Delete(patient_id, confirm, fault, rfault)

SelectStep == \E patient_id \in tree : SelectRecord(patient_id)

RestoreStep ==
  \E archive \in backups \cup {OtherFile}, confirm \in BOOLEAN,
     failing \in RestoreSteps, reconnects \in BOOLEAN :
    Restore(archive, confirm, failing, reconnects)

BackupStep == \E written \in BOOLEAN : Backup(written)

PlainForms == Forms \ {FormHuge}

\* the handlers of the record store, with storage faults and restore_data
Next ==
  \/ SaveStep(PlainForms, TRUE)
  \/ UpdateStep(PlainForms, TRUE)
  \/ DeleteStep(TRUE)
  \/ Load
  \/ SelectStep
  \/ RestoreStep

Spec == Init /\ [][Next]_vars

\* the entry handlers with every form, quantities beyond the range of an
\* SQLite INTEGER included, and with storage faults
NextEntry ==
  \/ SaveStep(Forms, TRUE)
  \/ UpdateStep(Forms, TRUE)
  \/ DeleteStep(FALSE)
  \/ Load
  \/ SelectStep

SpecEntry == Init /\ [][NextEntry]_vars

\* identifier assignment: save and delete with storage faults
NextIds ==
  \/ SaveStep(PlainForms, TRUE)
  \/ DeleteStep(TRUE)
  \/ Load

SpecIds == Init /\ [][NextIds]_vars

\* the handlers without storage faults, with backup_data and restore_data
NextArchive ==
  \/ SaveStep(PlainForms, FALSE)
  \/ UpdateStep(PlainForms, FALSE)
  \/ DeleteStep(FALSE)
  \/ Load
  \/ SelectStep
  \/ RestoreStep
  \/ BackupStep

SpecArchive == Init /\ [][NextArchive]_vars

\* the entry handlers without storage faults, while time passes
NextClock ==
  \/ SaveStep(PlainForms, FALSE)
  \/ UpdateStep(PlainForms, FALSE)
  \/ DeleteStep(FALSE)
  \/ Load
  \/ SelectStep
  \/ Tick

SpecClock == Init /\ [][NextClock]_vars

\* saving with every form, quantities beyond the range of an SQLite INTEGER
\* included, then backup_data and restore_data; no storage fault
NextRoundTrip ==
  \/ SaveStep(Forms, FALSE)
  \/ Load
  \/ BackupStep
  \/ RestoreStep

SpecRoundTrip == Init /\ [][NextRoundTrip]_vars

\* the dosage calculator and validate_mobile_number, each called once with
\* arguments drawn from the sets below, on a day drawn from Todays
Truth(b) == [type |-> "bool", val |-> b]

Jan01 == <<"2", "0", "2", "4", "-", "0", "1", "-", "0", "1">>

Jan8Short == <<"2", "0", "2", "4", "-", "1", "-", "8">>

Feb28 == <<"2", "0", "2", "4", "-", "0", "2", "-", "2", "8">>

Dec31Of9999 == <<"9", "9", "9", "9", "-", "1", "2", "-", "3", "1">>

Month13 == <<"2", "0", "2", "4", "-", "1", "3", "-", "0", "1">>

Jan04 == <<"2", "0", "2", "4", "-", "0", "1", "-", "0", "4">>

Jan10 == <<"2", "0", "2", "4", "-", "0", "1", "-", "1", "0">>

Mar01 == <<"2", "0", "2", "4", "-", "0", "3", "-", "0", "1">>

Feb30 == <<"2", "0", "2", "4", "-", "0", "2", "-", "3", "0">>

StartValues ==
  {Text(s) : s \in {Jan01, Jan8Short, Feb28, Dec31Of9999, Month13, <<>>}}
    \cup {PyNone}

EndValues == {Text(s) : s \in {Jan04, Jan10, Mar01, Feb30}} \cup {PyNone}

\* quantities 1..MaxQuantity, one that carries the end date past 9999-12-31,
\* a text, None
QtyValues ==
  {Number(q) : q \in 1..MaxQuantity}
    \cup {Number(3000000), Text(<<"4">>), PyNone}

FreqValues ==
  {Text(c) : c \in Frequencies}
    \cup {Text(<<"b", "d">>), Text(<<"T", "d", "s">>), Text(<<"X", "X">>),
          Text(<<>>), PyNone, Number(2)}

MobileValues ==
  {<<>>, TenDigits, TenDigits \o <<"\n">>, TenDigits \o <<" ">>,
   <<" ">> \o TenDigits, <<"\n">> \o TenDigits, Tail(TenDigits),
   TenDigits \o <<"1">>, Tail(TenDigits) \o <<"x">>,
   TenDigits \o <<"\n", "\n">>}

\* 2024-01-01, 2024-01-05, 2024-01-10 and 2024-01-11
Todays == {toordinal(Date(2024, 1, 1)) + k : k \in {0, 4, 9, 10}}

Call(op, args) ==
  [op |-> op, outcome |-> "called", args |-> args, ret |-> PyNone]

Calls ==
  {Call("frequency_to_daily_count", [freq |-> f]) : f \in FreqValues}
    \cup {Call("calculate_end_date", a) :
            a \in [start_date : StartValues, qty : QtyValues,
                   freq : FreqValues]}
    \cup {Call("calculate_remaining_tablets", a) :
            a \in [start : StartValues, end : EndValues, qty : QtyValues,
                   freq : FreqValues]}
    \cup {Call("validate_mobile_number", [mobile_number |-> m]) :
            m \in MobileValues}

InitDosage ==
  /\ file = EmptyDb
  /\ live = EmptyDb
  /\ in_transaction = FALSE
  /\ foreign_keys = TRUE
  /\ connected = TRUE
  /\ editing_id = None
  /\ tree = {}
  /\ backups = {}
  /\ now \in Todays
  /\ last \in Calls

Return(op, v) ==
  /\ last.op = op /\ last.outcome = "called"
  /\ last' = [last EXCEPT !.outcome = "returned", !.ret = v]
  /\ UNCHANGED <<conn_vars, editing_id, tree, backups, now>>

CallFrequencyToDailyCount ==
  Return("frequency_to_daily_count",
         Number(frequency_to_daily_count(last.args.freq)))

CallCalculateEndDate ==
  Return("calculate_end_date",
         calculate_end_date(last.args.start_date, last.args.qty,
                            last.args.freq))

CallCalculateRemainingTablets ==
  Return("calculate_remaining_tablets",
         calculate_remaining_tablets(last.args.start, last.args.end,
                                     last.args.qty, last.args.freq, now))

CallValidateMobileNumber ==
  Return("validate_mobile_number",
         Truth(validate_mobile_number(last.args.mobile_number)))

\* populate_treeview on a course whose end date is the one that
\* auto_update_end_date has put into the form: calculate_remaining_tablets
\* is given the value calculate_end_date returned
CallRemainingTabletsOfCourse ==
  /\ last.op = "calculate_end_date" /\ last.outcome = "returned"
  /\ last' = [op |-> "calculate_remaining_tablets",
              outcome |-> "returned",
              args |-> [start |-> last.args.start_date, end |-> last.ret,
                        qty |-> last.args.qty, freq |-> last.args.freq],
              ret |-> calculate_remaining_tablets(
                        last.args.start_date, last.ret, last.args.qty,
                        last.args.freq, now)]
  /\ UNCHANGED <<conn_vars, editing_id, tree, backups, now>>

NextDosage ==
  \/ CallFrequencyToDailyCount
  \/ CallCalculateEndDate
  \/ CallCalculateRemainingTablets
  \/ CallValidateMobileNumber
  \/ CallRemainingTabletsOfCourse

SpecDosage == InitDosage /\ [][NextDosage]_vars

TypeOK ==
  /\ in_transaction \in BOOLEAN
  /\ foreign_keys \in BOOLEAN
  /\ connected \in BOOLEAN
  /\ editing_id \in 0..MaxPatients
  /\ tree \subseteq 1..MaxPatients
  /\ now \in 0..MaxClock
  /\ Cardinality(backups) <= MaxBackups
  /\ Cardinality(live.Patients) <= MaxPatients

\* ---------------------------------------------------------------- claims
\* the position of identifier i among the identifiers ids, in ascending order
Rank(i, ids) == Cardinality({j \in ids : j <= i})

\* a medicine course without the key of its patient
Course(m) ==
  [MedicineName |-> m.MedicineName, StartDate |-> m.StartDate,
   Quantity |-> m.Quantity, Frequency |-> m.Frequency, EndDate |-> m.EndDate]

CourseRow(c, id) ==
  [PatientID |-> id, MedicineName |-> c.MedicineName,
   StartDate |-> c.StartDate, Quantity |-> c.Quantity,
   Frequency |-> c.Frequency, EndDate |-> c.EndDate]

\* the courses of the patient id, as a bag
CoursesOf(db, id) ==
  [c \in {Course(m) : m \in {x \in DOMAIN db.Medicines : x.PatientID = id}}
     |-> db.Medicines[CourseRow(c, id)]]

\* the store once the patient id and its courses are gone
Without(db, id) ==
  [db EXCEPT !.Patients = {p \in @ : p.PatientID # id},
             !.Medicines = [m \in {x \in DOMAIN @ : x.PatientID # id} |-> @[m]]]

Dangling(db) ==
  {m \in DOMAIN db.Medicines : m.PatientID \notin PatientIds(db)}

ResequencedOk ==
  last'.op = "delete" /\ last'.outcome = "ok" /\ last'.reseq = "ok"

ResequenceFailed ==
  /\ last'.op = "delete" /\ last'.outcome = "ok"
  /\ last'.reseq \in {"select failed", "copy failed", "rolled back"}

\* C1: when resequence_patient_ids succeeds on a store with n patients, the
\* identifiers become 1..n, the patient with the k-th smallest identifier
\* gets k and keeps its fields and its courses, and no course row points at
\* an identifier that is not in Patients.
C1_ResequenceRenumbers ==
  [][ResequencedOk =>
       LET before == Without(live, last'.id)
           ids == PatientIds(before)
       IN  /\ PatientIds(live') = 1..Cardinality(ids)
           /\ \A p \in before.Patients :
                \E q \in live'.Patients :
                  /\ q.PatientID = Rank(p.PatientID, ids)
                  /\ Fields(q) = Fields(p)
                  /\ CoursesOf(live', q.PatientID)
                       = CoursesOf(before, p.PatientID)
           /\ Dangling(live') = {}]_vars

\* C2: when a step of resequence_patient_ids fails, the store is what it was
\* before the attempt: the same Patients rows, the same Medicines rows and no
\* further table.
C2_FailedResequenceRestores ==
  [][ResequenceFailed =>
       /\ live' = Without(live, last'.id)
       /\ file' = Without(live, last'.id)]_vars

\* C3: every Medicines row points at a patient that exists.
C3_NoDanglingCourse == Dangling(live) = {} /\ Dangling(file) = {}

\* C4: the identifiers of the n patients are exactly 1..n.
C4_IdentifiersDense == PatientIds(live) = 1..Cardinality(live.Patients)

\* C5: a successful save adds one patient, whose identifier is the lowest
\* positive integer that was not an identifier before the save.
C5_SaveFillsLowestGap ==
  [][(last'.op = "save" /\ last'.outcome = "ok") =>
       LET added == live'.Patients \ live.Patients
       IN  /\ Cardinality(added) = 1
           /\ live.Patients \subseteq live'.Patients
           /\ \A p \in added :
                /\ p.PatientID >= 1
                /\ p.PatientID \notin PatientIds(live)
                /\ \A j \in 1..(p.PatientID - 1) : j \in PatientIds(live)]_vars

\* a save has filled a gap below the largest identifier
C5_Witness ==
  /\ last.op = "save" /\ last.outcome = "ok"
  /\ \E p \in live.Patients : p.PatientID > last.id
  /\ last.id \in PatientIds(live)

\* C6: a save or an update that hits a storage error leaves both tables, and
\* so their row counts, as they were before the attempt.
C6_StorageErrorRollsBack ==
  [][(last'.op \in {"save", "update"} /\ last'.outcome = "sqlite3.Error") =>
       /\ live'.Patients = live.Patients
       /\ live'.Medicines = live.Medicines]_vars

\* the validation errors, read off the text of the form: no name, an age
\* that is not a number, a mobile number that is not empty and not ten
\* digits, a named medicine row whose quantity is not a positive integer or
\* whose frequency is not one of the four codes, no named medicine row
Blank(s) == \A i \in 1..Len(s) : s[i] \in Whitespace

Trimmed(s) ==
  LET keep == {i \in 1..Len(s) : s[i] \notin Whitespace}
  IN  IF keep = {} THEN <<>>
      ELSE SubSeq(s, CHOOSE i \in keep : \A j \in keep : i <= j,
                     CHOOSE i \in keep : \A j \in keep : j <= i)

AllDigits(s) == s # <<>> /\ \A i \in 1..Len(s) : s[i] \in Digits

IsCode(s) ==
  \E c \in Frequencies :
    Len(c) = Len(s) /\ \A i \in 1..Len(s) : s[i] \in {c[i], LowerOf[c[i]]}

HasValidationError(form) ==
  LET named == {i \in 1..Len(form.meds) : ~Blank(form.meds[i].name)}
  IN  \/ Blank(form.name)
      \/ ~Blank(form.age) /\ ~AllDigits(Trimmed(form.age))
      \/ /\ ~Blank(form.mobile)
         /\ ~(AllDigits(Trimmed(form.mobile)) /\ Len(Trimmed(form.mobile)) = 10)
      \/ \E i \in named :
           \/ ~AllDigits(Trimmed(form.meds[i].qty))
           \/ \A k \in 1..Len(Trimmed(form.meds[i].qty)) :
                Trimmed(form.meds[i].qty)[k] = "0"
           \/ ~IsCode(Trimmed(form.meds[i].freq))
      \/ named = {}

\* C7: save and update with a form that has a validation error write
\* nothing: the store, the store file and the transaction are as before.
C7_InvalidFormWritesNothing ==
  [][\A form \in Forms :
       (HasValidationError(form) /\ (Save(form, 0) \/ Update(form, 0)))
         => /\ live' = live
            /\ file' = file
            /\ in_transaction' = in_transaction]_vars

\* a form with a validation error was submitted to a store that holds a
\* patient
C7_Witness ==
  /\ last.op \in {"save", "update"}
  /\ last.outcome = "invalid"
  /\ live.Patients # {}
  /\ \E form \in Forms : HasValidationError(form)

\* the fields and the courses a form submits
Submitted(form) ==
  [Name |-> title(Trimmed(form.name)),
   Age |-> IF Blank(form.age) THEN NULL ELSE Some(int(Trimmed(form.age))),
   Gender |-> Trimmed(form.gender),
   Address |-> Trimmed(form.address),
   MobileNumber |->
     IF Blank(form.mobile) THEN NULL ELSE Some(Trimmed(form.mobile))]

SubmittedCourses(form) ==
  LET named == SelectSeq(form.meds, LAMBDA m : ~Blank(m.name))
      course(m) == [MedicineName |-> title(Trimmed(m.name)),
                    StartDate |-> m.start,
                    Quantity |-> int(Trimmed(m.qty)),
                    Frequency |-> upper(Trimmed(m.freq)),
                    EndDate |-> m.end]
      all == {course(named[i]) : i \in 1..Len(named)}
  IN  [c \in all |-> Cardinality({i \in 1..Len(named) : course(named[i]) = c})]

\* C8: a successful update of the patient p has given p the submitted fields
\* and exactly the submitted courses; the identifier and the entry date of
\* p, every other patient and the courses of every other patient are as
\* before.
C8_UpdateReplacesCourses ==
  [][\A form \in Forms :
       ((\E fault \in UpdateFaults(form) : Update(form, fault))
          /\ last'.op = "update" /\ last'.outcome = "ok"
          /\ editing_id \in PatientIds(live))
         => LET p == editing_id
            IN  /\ PatientIds(live') = PatientIds(live)
                /\ Fields(PatientRow(live', p)) = Submitted(form)
                /\ PatientRow(live', p).EntryDate
                     = PatientRow(live, p).EntryDate
                /\ CoursesOf(live', p) = SubmittedCourses(form)
                /\ Without(live', p) = Without(live, p)]_vars

\* an update went through while another patient, with other fields, was in
\* the store, and the patient updated had other courses before
C8_Witness ==
  /\ last.op = "update" /\ last.outcome = "ok"
  /\ last.id \in PatientIds(live)
  /\ \E q \in live.Patients :
       /\ q.PatientID # last.id
       /\ Fields(q) # Fields(PatientRow(live, last.id))
       /\ CoursesOf(live, q.PatientID) # CoursesOf(live, last.id)

\* C9: a confirmed delete of the patient p takes away p and the courses of
\* p and nothing else: the other patients, in the order of their
\* identifiers, keep their fields and their courses; a declined delete
\* changes nothing.
C9_DeleteRemovesOnlyThat ==
  [][/\ (last'.op = "delete" /\ last'.outcome = "declined")
          => (live' = live /\ file' = file)
     /\ (last'.op = "delete" /\ last'.outcome = "ok")
          => LET rest == PatientIds(live) \ {last'.id}
                 left == PatientIds(live')
             IN  /\ Cardinality(left) = Cardinality(rest)
                 /\ \A i \in rest :
                      \E q \in live'.Patients :
                        /\ Rank(q.PatientID, left) = Rank(i, rest)
                        /\ Fields(q) = Fields(PatientRow(live, i))
                        /\ CoursesOf(live', q.PatientID) = CoursesOf(live, i)
                 /\ BagCardinality(live'.Medicines)
                      = BagCardinality(Without(live, last'.id).Medicines)]_vars

\* C10: a confirmed restore from an archive written by backup_data leaves
\* the store, seen through the connection and on disk, with the Patients and
\* Medicines rows the store file had when the archive was written.
C10_RestoreBringsBackArchive ==
  [][\A archive \in backups :
       (\E failing \in RestoreSteps, reconnects \in BOOLEAN :
          Restore(archive, TRUE, failing, reconnects))
         => /\ live'.Patients = archive.db.Patients
            /\ live'.Medicines = archive.db.Medicines
            /\ file'.Patients = archive.db.Patients
            /\ file'.Medicines = archive.db.Medicines]_vars

\* C11: when backup_data has just written an archive and restore_data is
\* confirmed with that archive, nothing in the environment failing, the
\* Patients and Medicines rows of the store are those from before the backup.
C11_BackupThenRestore ==
  [][(/\ last.op = "backup" /\ last.outcome = "ok"
      /\ \E archive \in backups :
           /\ archive.backup_date = now
           /\ Restore(archive, TRUE, "none", TRUE))
       => /\ live'.Patients = live.Patients
          /\ live'.Medicines = live.Medicines]_vars

\* C12: when a confirmed restore_data has failed, the application holds an
\* open connection on the store file as it is on disk: what it reads is the
\* content of the file, but for the rows of its own open transaction.
C12_FailedRestoreStaysConnected ==
  (last.op = "restore" /\ last.outcome = "failed")
    => /\ connected
       /\ in_transaction \/ live = file

\* a confirmed restore from an archive of backup_data has failed on a store
\* that holds a patient, and the application has reconnected
C12_Witness ==
  /\ last.op = "restore" /\ last.outcome = "failed"
  /\ \E archive \in backups : archive.is_archive
  /\ file.Patients # {}
  /\ connected /\ ~foreign_keys

\* C13: foreign keys are enforced on the connection whenever no handler is
\* running: after startup, after resequence_patient_ids and after
\* restore_data, however they ended.
C13_ForeignKeysOn == foreign_keys

\* the function op has returned
Returned(op) == last.op = op /\ last.outcome = "returned"

\* the daily dose count of each frequency code
CodeCount(code) ==
  CASE code = <<"O", "D">> -> 1
    [] code = <<"B", "D">> -> 2
    [] code = <<"T", "D", "S">> -> 3
    [] code = <<"Q", "I", "D">> -> 4

\* the code that a text spells, in whatever case
CodeOf(s) ==
  CHOOSE c \in Frequencies :
    Len(c) = Len(s) /\ \A i \in 1..Len(s) : s[i] \in {c[i], LowerOf[c[i]]}

\* C14: frequency_to_daily_count returns 1, 2, 3, 4 for OD, BD, TDS, QID and
\* 1 for every other text.
C14_DailyCount ==
  (Returned("frequency_to_daily_count") /\ last.args.freq.type = "str")
    => last.ret = Number(IF last.args.freq.val \in Frequencies
                           THEN CodeCount(last.args.freq.val)
                           ELSE 1)

\* C14, amended: frequency_to_daily_count returns 1, 2, 3, 4 for a text that
\* spells OD, BD, TDS, QID in upper or lower case, and 1 for every other text.
C14_DailyCountInAnyCase ==
  (Returned("frequency_to_daily_count") /\ last.args.freq.type = "str")
    => last.ret = Number(IF IsCode(last.args.freq.val)
                           THEN CodeCount(CodeOf(last.args.freq.val))
                           ELSE 1)

\* the count of a code written in lower case was asked for: bd gives 2
C14_Witness ==
  /\ Returned("frequency_to_daily_count")
  /\ last.args.freq = Text(<<"b", "d">>)
  /\ last.ret = Number(2)

\* the calendar from 2024-01-01 on, day by day to the end of March: January
\* has 31 days, February 29
Q1Text(k) ==
  IF k < 31 THEN SubSeq(Jan01, 1, 8) \o TwoDigits(k + 1)
  ELSE IF k < 60 THEN SubSeq(Feb28, 1, 8) \o TwoDigits(k - 30)
  ELSE SubSeq(Mar01, 1, 8) \o TwoDigits(k - 59)

\* the days from 2024-01-01 to the well-formed dates of the model
Q1Day ==
  (Jan01 :> 0) @@ (Jan04 :> 3) @@ (Jan8Short :> 7) @@ (Jan10 :> 9)
    @@ (Feb28 :> 58) @@ (Mar01 :> 60)

\* the dates of the model that are no dates
Malformed == {Text(Month13), Text(Feb30), Text(<<>>), PyNone}

Ceil(q, d) == IF q % d = 0 THEN q \div d ELSE (q \div d) + 1

IsFrequencyCode(freq) == freq.type = "str" /\ freq.val \in Frequencies

\* C15: for a start date that parses, a quantity of 1 or more and a
\* frequency code, calculate_end_date returns the date that lies
\* ceil(quantity / daily count) - 1 days after the start date; that date is
\* the start date only when one day is needed.
C15_EndDate ==
  (/\ Returned("calculate_end_date")
   /\ last.args.start_date \notin Malformed
   /\ last.args.qty.type = "int" /\ last.args.qty.val >= 1
   /\ IsFrequencyCode(last.args.freq))
    => LET start == last.args.start_date.val
           days == Ceil(last.args.qty.val, CodeCount(last.args.freq.val)) - 1
       IN  /\ (start \in DOMAIN Q1Day /\ Q1Day[start] + days <= 90)
                => last.ret = Text(Q1Text(Q1Day[start] + days))
           /\ days >= 1 => last.ret # last.args.start_date

\* 9999-12-31, the last date of the calendar, in days from 2024-01-01
LastDay == MaxOrdinal - toordinal(Date(2024, 1, 1))

\* C15, amended: for a start date that parses, a quantity of 1 or more and a
\* frequency code, calculate_end_date returns the date that lies
\* ceil(quantity / daily count) - 1 days after the start date when that date
\* is no later than 9999-12-31, and its start date argument when that date
\* would be later.
C15_EndDateInCalendar ==
  (/\ Returned("calculate_end_date")
   /\ last.args.start_date \notin Malformed
   /\ last.args.qty.type = "int" /\ last.args.qty.val >= 1
   /\ IsFrequencyCode(last.args.freq))
    => LET start == last.args.start_date.val
           days == Ceil(last.args.qty.val, CodeCount(last.args.freq.val)) - 1
       IN  /\ (start \in DOMAIN Q1Day /\ Q1Day[start] + days <= 90)
                => last.ret = Text(Q1Text(Q1Day[start] + days))
           /\ (start \in DOMAIN Q1Day /\ Q1Day[start] + days <= LastDay
                 /\ days >= 1)
                => last.ret # last.args.start_date
           /\ (start \in DOMAIN Q1Day /\ Q1Day[start] + days > LastDay)
                => last.ret = last.args.start_date
           /\ start = Dec31Of9999 => last.ret = last.args.start_date

\* 10 tablets twice a day from 2024-01-01: the end date is 2024-01-05
C15_Witness ==
  /\ Returned("calculate_end_date")
  /\ last.args = [start_date |-> Text(Jan01), qty |-> Number(10),
                  freq |-> Text(<<"B", "D">>)]
  /\ last.ret = Text(<<"2", "0", "2", "4", "-", "0", "1", "-", "0", "5">>)

\* today, in days from 2024-01-01
Q1Today == now - toordinal(Date(2024, 1, 1))

AtLeastZero(x) == IF x < 0 THEN 0 ELSE x

\* C16: for a start date and an end date that parse, an integer quantity, a
\* frequency code and any today, calculate_remaining_tablets returns 0 when
\* today is after the end date, and otherwise the quantity less the daily
\* count times the days from the start date to today (no less than 0 days),
\* and no less than 0.
C16_RemainingTablets ==
  (/\ Returned("calculate_remaining_tablets")
   /\ last.args.start \notin Malformed /\ last.args.start.val \in DOMAIN Q1Day
   /\ last.args.end \notin Malformed /\ last.args.end.val \in DOMAIN Q1Day
   /\ last.args.qty.type = "int"
   /\ IsFrequencyCode(last.args.freq))
    => LET start == Q1Day[last.args.start.val]
           end == Q1Day[last.args.end.val]
           taken == AtLeastZero(Q1Today - start)
                      * CodeCount(last.args.freq.val)
       IN  last.ret = Number(IF Q1Today > end THEN 0
                             ELSE AtLeastZero(last.args.qty.val - taken))

\* 20 tablets once a day from 2024-01-01 to 2024-01-10, asked on 2024-01-05:
\* 16 remain
C16_Witness ==
  /\ Returned("calculate_remaining_tablets")
  /\ last.args = [start |-> Text(Jan01), end |-> Text(Jan10),
                  qty |-> Number(20), freq |-> Text(<<"O", "D">>)]
  /\ Q1Today = 4
  /\ last.ret = Number(16)

\* C17: no dosage function raises: calculate_remaining_tablets returns 0 for
\* a date that is no date and for a quantity that is no number,
\* calculate_end_date returns its start date argument for a start date that
\* is no date and for a quantity that is no number, frequency_to_daily_count
\* returns 1 for a frequency that is no text.
C17_NeverRaises ==
  /\ last.outcome = "returned" => last.ret.type # "raise"
  /\ (/\ Returned("calculate_remaining_tablets")
      /\ \/ last.args.start \in Malformed
         \/ last.args.end \in Malformed
         \/ last.args.qty.type # "int")
       => last.ret = Number(0)
  /\ (/\ Returned("calculate_end_date")
      /\ \/ last.args.start_date \in Malformed
         \/ last.args.qty.type # "int")
       => last.ret = last.args.start_date
  /\ (Returned("frequency_to_daily_count") /\ last.args.freq.type # "str")
       => last.ret = Number(1)

\* calculate_end_date was given a quantity that is a text, with a start date
\* that parses, and has returned the start date
C17_Witness ==
  /\ Returned("calculate_end_date")
  /\ last.args.start_date = Text(Jan01)
  /\ last.args.qty = Text(<<"4">>)
  /\ last.ret = Text(Jan01)

\* C18: validate_mobile_number accepts the empty text and the texts of
\* exactly ten digits, and no other text.
C18_MobileTenDigits ==
  Returned("validate_mobile_number")
    => LET m == last.args.mobile_number
       IN  last.ret.val
             <=> (m = <<>> \/ (Len(m) = 10 /\ \A i \in 1..10 : m[i] \in Digits))

\* the identifiers whose patient row or courses differ between two stores
Touched(before, after) ==
  LET ids == PatientIds(before) \cup PatientIds(after)
               \cup {m.PatientID : m \in DOMAIN before.Medicines}
               \cup {m.PatientID : m \in DOMAIN after.Medicines}
  IN  {i \in ids :
         \/ {q \in before.Patients : q.PatientID = i}
              # {q \in after.Patients : q.PatientID = i}
         \/ CoursesOf(before, i) # CoursesOf(after, i)}

\* C19: when a patient is deleted and the identifiers are resequenced right
\* after select_record of the patient p, whatever an update then writes, it
\* writes to p under its new identifier, and to nobody when p was the
\* patient deleted.
C19_UpdateWritesSelected ==
  [][\A d \in tree :
       (/\ last.op = "select_record" /\ last.outcome = "ok"
        /\ Delete(d, TRUE, 0, 0)
        /\ last'.outcome = "ok")
         => LET after == [live |-> live', file |-> file',
                          foreign_keys |-> foreign_keys',
                          in_transaction |-> in_transaction',
                          connected |-> connected']
                selected == IF d = editing_id THEN {}
                            ELSE {Rank(editing_id, PatientIds(live) \ {d})}
            IN  \A form \in ValidForms :
                  LET r == Run(after,
                               UpdateStmts(editing_id', Validated[form]),
                               0, now')
                  IN  r.exc = "none"
                        => Touched(live', r.st.live) \subseteq selected]_vars

\* C20: a successful resequencing changes identifiers only: every patient
\* left in the store has, under its new identifier, the name, age, gender,
\* address, mobile number and entry date it had before.
C20_ResequenceKeepsFields ==
  [][ResequencedOk
       => LET rest == PatientIds(live) \ {last'.id}
              left == PatientIds(live')
          IN  \A i \in rest :
                \E q \in live'.Patients :
                  /\ Rank(q.PatientID, left) = Rank(i, rest)
                  /\ Fields(q) = Fields(PatientRow(live, i))
                  /\ q.EntryDate = PatientRow(live, i).EntryDate]_vars

\* C21: a successful resequencing that comes after a failed one (the copy
\* of the failed attempt is still in the store) works from the patients of
\* the store as they are now: as many patients after it as before it, each
\* with the fields it had.
C21_ResequenceAfterFailure ==
  [][(ResequencedOk /\ live.Patients_temp.exists)
       => LET rest == PatientIds(live) \ {last'.id}
              left == PatientIds(live')
          IN  /\ Cardinality(live'.Patients) = Cardinality(rest)
              /\ \A i \in rest :
                   \E q \in live'.Patients :
                     /\ Rank(q.PatientID, left) = Rank(i, rest)
                     /\ Fields(q) = Fields(PatientRow(live, i))]_vars

\* the day of a date that parses, in days from 2024-01-01
DayOf(text) == toordinal(strptime(text).val) - toordinal(Date(2024, 1, 1))

\* C22: for a start date that parses, a quantity of 1 or more and a
\* frequency code, with the end date that calculate_end_date returns for
\* them, calculate_remaining_tablets returns at least 1 and at most the
\* quantity on every day up to the end date, and 0 on every day after it.
C22_EndDateIsLastDay ==
  (/\ Returned("calculate_remaining_tablets")
   /\ last.args.start \notin Malformed
   /\ last.args.qty.type = "int" /\ last.args.qty.val >= 1
   /\ IsFrequencyCode(last.args.freq)
   /\ last.args.end = calculate_end_date(last.args.start, last.args.qty,
                                         last.args.freq))
    => IF Q1Today <= DayOf(last.args.end)
         THEN last.ret.type = "int" /\ last.ret.val \in 1..last.args.qty.val
         ELSE last.ret = Number(0)

\* 10 tablets once a day from 2024-01-01 end on 2024-01-10, and on that day
\* 1 tablet remains
C22_Witness ==
  /\ Returned("calculate_remaining_tablets")
  /\ last.args = [start |-> Text(Jan01), end |-> Text(Jan10),
                  qty |-> Number(10), freq |-> Text(<<"O", "D">>)]
  /\ Q1Today = 9
  /\ last.ret = Number(1)

====
